---- MODULE Spec2Model ----
(***************************************************************************)
(* A model of the aidmslog log manager (package logger): the asynchronous  *)
(* delivery pipeline of log_manager.go (buffered channel, one worker       *)
(* goroutine, shutdown by Close), its synchronous mode, and the            *)
(* line-oriented file backend of backend_file.go.                          *)
(***************************************************************************)
EXTENDS Integers, Sequences, FiniteSets, TLC

(***************************************************************************)
(* Bounds of the model.                                                    *)
(***************************************************************************)
\* make(chan LogEntry, 1000) in the source; the model keeps the capacity small.
QueueCap == 1
\* WriteLog calls made in a run, by all callers together
MaxWrites == 3
\* RegisterLogHandler calls
MaxHandlers == 2
\* backend writes the operating system may fail
MaxIOFail == 1
\* WriteLog calls of the one caller whose text is arbitrary
MaxFileWrites == 2
\* longest message written to the file backend when the text is arbitrary
MaxMsgLen == 1
\* the wall clock runs from 0 to MaxTime ticks
MaxTime == 1
\* WriteLog calls made in a run of the fair specifications
MaxLiveWrites == 2
\* calls each goroutine makes on the FileBackend directly
MaxFbCalls == 2
\* calls of lm.backend.Close() in a run
MaxCloses == 3
\* ticks per second: RFC3339 keeps whole seconds only
TicksPerSec == 2

\* the goroutines that call WriteLog
Producers == {1, 2}
Ids == Producers \X (1..MaxWrites)
Handlers == {"h1", "h2"}
\* what an observer's Handle returns: h1 fails every call, h2 returns nil
HandleErr(h) == h = "h1"

(***************************************************************************)
(* Text.  A string is a sequence of one-character strings.                 *)
(***************************************************************************)
LevelDebug == <<"D", "E", "B", "U", "G">>
LevelInfo == <<"I", "N", "F", "O">>
LevelWarn == <<"W", "A", "R", "N">>
LevelError == <<"E", "R", "R", "O", "R">>
Levels == {LevelDebug, LevelInfo, LevelWarn, LevelError}

DigitChars == <<"0", "1", "2", "3", "4", "5", "6", "7", "8", "9">>
MsgChars == {"a", " ", "\n"}
SpaceChars == {" ", "\n"}

RECURSIVE StringsUpTo(_)
StringsUpTo(n) ==
  IF n = 0 THEN {<<>>}
  ELSE LET shorter == StringsUpTo(n - 1)
       IN shorter \cup {s \o <<c>> : s \in shorter, c \in MsgChars}

Messages == StringsUpTo(MaxMsgLen)

\* strings.Index(s, c) for a one-character c, 1-based; 0 when c is absent
IndexOf(s, c) ==
  IF \E i \in 1..Len(s) : s[i] = c
  THEN CHOOSE i \in 1..Len(s) : s[i] = c /\ \A j \in 1..(i - 1) : s[j] # c
  ELSE 0

\* strings.TrimSpace
TrimSpace(s) ==
  IF \A i \in 1..Len(s) : s[i] \in SpaceChars THEN <<>>
  ELSE LET first == CHOOSE i \in 1..Len(s) :
                      s[i] \notin SpaceChars /\ \A j \in 1..(i - 1) : s[j] \in SpaceChars
           last == CHOOSE i \in 1..Len(s) :
                      s[i] \notin SpaceChars /\ \A j \in (i + 1)..Len(s) : s[j] \in SpaceChars
       IN SubSeq(s, first, last)

\* fmt's %-5s: left-justified, padded with spaces to width 5
RECURSIVE PadRight(_, _)
PadRight(s, width) == IF Len(s) >= width THEN s ELSE PadRight(s \o <<" ">>, width)

\* Timestamp.Format(time.RFC3339): whole seconds, the fraction is dropped
FormatTime(t) == <<DigitChars[(t \div TicksPerSec) + 1]>>

\* time.Parse(time.RFC3339, s): -1 stands for the parse error
ParseTime(s) ==
  IF Len(s) = 1 /\ \E d \in 1..Len(DigitChars) : DigitChars[d] = s[1]
  THEN ((CHOOSE d \in 1..Len(DigitChars) : DigitChars[d] = s[1]) - 1) * TicksPerSec
  ELSE -1

\* fmt.Sprintf("[%s] %-5s: %s\n", timestamp, entry.Level, entry.Message)
FormatLine(e) ==
  <<"[">> \o FormatTime(e.ts) \o <<"]", " ">> \o PadRight(e.level, 5)
    \o <<":", " ">> \o e.msg \o <<"\n">>

\* bufio.Scanner with ScanLines: the text cut at every "\n"
RECURSIVE ScanLines(_)
ScanLines(text) ==
  IF text = <<>> THEN <<>>
  ELSE LET nl == IndexOf(text, "\n")
       IN IF nl = 0 THEN <<text>>
          ELSE <<SubSeq(text, 1, nl - 1)>> \o ScanLines(SubSeq(text, nl + 1, Len(text)))

(***************************************************************************)
(* Entries and filters.                                                    *)
(***************************************************************************)
\* LogEntry; id names the WriteLog call that made the entry (caller, number)
\* and is not a field of the Go struct.
LogEntry(id, level, msg, ts) == [id |-> id, level |-> level, msg |-> msg, ts |-> ts]
NoEntry == LogEntry(<<0, 0>>, <<>>, <<>>, 0)
\* what a reader of the file gets back: level, message, timestamp
Stored(level, msg, ts) == [level |-> level, msg |-> msg, ts |-> ts]
\* a nil *time.Time
NilTime == -1
\* LogFilter{}
EmptyFilter == [Contains |-> <<>>, StartTime |-> NilTime, EndTime |-> NilTime]

\* strings.Contains
ContainsStr(s, sub) ==
  \E i \in 1..(Len(s) - Len(sub) + 1) : SubSeq(s, i, i + Len(sub) - 1) = sub

applyFilter(entry, filter) ==
  /\ ~(filter.Contains # <<>> /\ ~ContainsStr(entry.msg, filter.Contains))
  /\ ~(filter.StartTime # NilTime /\ entry.ts < filter.StartTime)
  /\ ~(filter.EndTime # NilTime /\ entry.ts > filter.EndTime)

\* The body of the scanner loop of FileBackend.Read for one line: the sequence
\* holding the parsed entry, or the empty sequence when the line is skipped.
ParseLine(line, level, filter) ==
  IF Len(line) = 0 \/ line[1] # "[" THEN <<>>
  ELSE LET end == IndexOf(line, "]")
       IN IF end = 0 THEN <<>>
          ELSE LET ts == ParseTime(SubSeq(line, 2, end - 1))
                   rest == TrimSpace(SubSeq(line, end + 1, Len(line)))
                   colon == IndexOf(rest, ":")
               IN IF ts = -1 \/ colon = 0 THEN <<>>
                  ELSE LET entry == Stored(TrimSpace(SubSeq(rest, 1, colon - 1)),
                                           TrimSpace(SubSeq(rest, colon + 1, Len(rest))),
                                           ts)
                       IN IF level # <<>> /\ entry.level # level THEN <<>>
                          ELSE IF ~applyFilter(entry, filter) THEN <<>>
                          ELSE <<entry>>

RECURSIVE ParseLines(_, _, _)
ParseLines(lines, level, filter) ==
  IF lines = <<>> THEN <<>>
  ELSE ParseLine(Head(lines), level, filter) \o ParseLines(Tail(lines), level, filter)

\* FileBackend.Read on a file holding text (the handle being open)
FileRead(text, level, filter) == ParseLines(ScanLines(text), level, filter)

\* the filters a reader may pass: a text to look for, a start and an end time
FilterTexts == {<<>>, <<"a">>}
FilterTimes == {NilTime} \cup (0..MaxTime)
Filters == [Contains : FilterTexts, StartTime : FilterTimes, EndTime : FilterTimes]

(***************************************************************************)
(* State.                                                                  *)
(***************************************************************************)
VARIABLES
  isAsync,     \* lm.isAsync
  handlers,    \* lm.handlers
  logChannel,  \* the entries buffered in lm.logChannel
  sendq,       \* the callers parked on a send to the full lm.logChannel, oldest first
  chanClosed,  \* close(lm.logChannel) has run
  done,        \* close(lm.done) has run
  worker,      \* the goroutine of startAsyncWorker
  call,        \* the WriteLog call of each caller
  closer,      \* where the one Close call stands
  fileOpen,    \* fb.file # nil
  disk,        \* the text of the file at fb.config.FilePath
  now,         \* the wall clock, in ticks
  ioFails,     \* writes the operating system has failed so far
  crashed,     \* a goroutine panicked: the process is gone
  result,      \* history: what each WriteLog call returned
  phase,       \* history: each WriteLog call ran "before" Close was invoked,
               \* was in flight while Close ran ("overlap"), or began "after" it returned
  written,     \* history: the entries handed to backend.Write, in order
  writeOk,     \* history: the entries whose backend.Write returned nil
  regAtWrite,  \* history: lm.handlers when the entry's backend.Write returned
  handled,     \* history: the observers whose Handle ran for each entry, in order
  ctor,        \* what NewLogManager did and returned
  clear,       \* where the ClearLogs call stands
  backendCloses, \* history: what each call of lm.backend.Close() returned
  diagnosed,   \* history: the entries whose write error the worker printed
  lmMu,        \* the holder of lm.mu: "free", "worker" or a caller
  fbMu,        \* the holder of fb.mu when the backend is called directly: 0 when free
  fbCall       \* the FileBackend call of each goroutine that calls the backend directly

chanVars == <<logChannel, sendq, chanClosed, done>>
fileVars == <<fileOpen, disk, ioFails>>
histVars == <<result, phase, written, writeOk, regAtWrite, handled>>
opVars == <<ctor, clear, backendCloses>>
auxVars == <<diagnosed, lmMu, fbMu, fbCall>>
vars == <<isAsync, opVars, auxVars, handlers, chanVars, worker, call, closer, fileVars, now, crashed, histVars>>

\* Config: the backend kind, the dynamic type of BackendConfig, Async
BackendTypes == {"file", "sql", "other"}
SettingsTypes == {"FileConfig", "SQLConfig"}
Configs == [Backend : BackendTypes, BackendConfig : SettingsTypes, Async : BOOLEAN]
\* what the file system does to FileBackend.Init: both calls succeed, os.MkdirAll
\* fails, os.OpenFile fails
FsOutcomes == {"ok", "mkdir", "open"}

\* FileBackend.Init(config): the error it returns, "nil" for none
FileBackendInit(settings, fs) ==
  IF settings # "FileConfig" THEN "type"
  ELSE IF fs = "mkdir" THEN "mkdir"
  ELSE IF fs = "open" THEN "open"
  ELSE "nil"

\* SQLBackend.Init(config)
SQLBackendInit(settings) == IF settings # "SQLConfig" THEN "type" ELSE "nil"

\* backend.Init(config.BackendConfig) for the backend of the kind
BackendInit(config, fs) ==
  IF config.Backend = "file" THEN FileBackendInit(config.BackendConfig, fs)
  ELSE SQLBackendInit(config.BackendConfig)

\* NewLogManager has not been called
NotBuilt ==
  [pc |-> "none", err |-> "none", backend |-> "none", workers |-> 0, queue |-> FALSE,
   config |-> [Backend |-> "other", BackendConfig |-> "FileConfig", Async |-> FALSE],
   fs |-> "ok"]

\* NewLogManager(config) has returned a manager
Built(config, fs) ==
  [pc |-> "returned", err |-> "nil", backend |-> config.Backend,
   workers |-> IF config.Async THEN 1 ELSE 0, queue |-> config.Async,
   config |-> config, fs |-> fs]

\* NewLogManager(config) has returned nil and the error
Failed(config, fs, err) ==
  [pc |-> "returned", err |-> err, backend |-> "none", workers |-> 0, queue |-> FALSE,
   config |-> config, fs |-> fs]

\* the manager exists and writes to a file
BuiltFile == ctor.pc = "returned" /\ ctor.err = "nil" /\ ctor.backend = "file"

\* fb.mu is free: no ClearLogs call holds it
FbMuFree == clear.pc # "blocked"

\* the name under which caller p holds lm.mu
CallerName(p) == DigitChars[p + 1]

\* a goroutine that is in no FileBackend call: n counts the calls it has made
IdleFbCall(n) == [stack |-> <<>>, pc |-> "idle", n |-> n]

IdleCall(n) == [pc |-> "idle", n |-> n, entry |-> NoEntry, snap |-> <<>>, i |-> 0]
WorkerAt(pc, drain) == [pc |-> pc, drain |-> drain, entry |-> NoEntry, snap |-> <<>>, i |-> 0]

\* The message a caller of the concurrent runs logs: its number and the call's,
\* as in fmt.Sprintf("Goroutine %d - Log %d", id, j).
MsgOf(p, n) == <<DigitChars[p + 1], DigitChars[n + 1]>>

\* NewLogManager has returned a manager on a file backend with an empty file.
InitCommon ==
  /\ handlers = <<>>
  /\ logChannel = <<>> /\ sendq = <<>> /\ chanClosed = FALSE /\ done = FALSE
  /\ worker = WorkerAt(IF isAsync THEN "select" ELSE "none", FALSE)
  /\ call = [p \in Producers |-> IdleCall(0)]
  /\ closer = "idle"
  /\ fileOpen = TRUE /\ disk = <<>> /\ ioFails = 0
  /\ now = 0
  /\ crashed = FALSE
  /\ result = [id \in Ids |-> "none"]
  /\ phase = [id \in Ids |-> "none"]
  /\ written = <<>>
  /\ writeOk = {}
  /\ regAtWrite = [id \in Ids |-> <<>>]
  /\ handled = [id \in Ids |-> <<>>]
  /\ ctor = Built([Backend |-> "file", BackendConfig |-> "FileConfig", Async |-> isAsync],
                  "ok")
  /\ clear = [pc |-> "idle", before |-> 0]
  /\ backendCloses = <<>>
  /\ diagnosed = {}
  /\ lmMu = "free"
  /\ fbMu = 0
  /\ fbCall = [t \in Producers |-> IdleFbCall(0)]

Init == isAsync \in BOOLEAN /\ InitCommon

(***************************************************************************)
(* FileBackend.Write.                                                      *)
(***************************************************************************)
\* How a call of FileBackend.Write can end in the current state: "nil" for the
\* missing handle, "io" for a failed WriteString, "ok".
WriteOutcomes ==
  IF ~fileOpen THEN {"nil"}
  ELSE {"ok"} \cup (IF ioFails < MaxIOFail THEN {"io"} ELSE {})

\* FileBackend.Write(entry) ending with outcome out, under fb.mu
FileBackendWrite(entry, out) ==
  /\ FbMuFree
  /\ out \in WriteOutcomes
  /\ disk' = IF out = "ok" THEN disk \o FormatLine(entry) ELSE disk
  /\ ioFails' = IF out = "io" THEN ioFails + 1 ELSE ioFails
  /\ written' = Append(written, entry)
  /\ writeOk' = IF out = "ok" THEN writeOk \cup {entry.id} ELSE writeOk
  /\ regAtWrite' = [regAtWrite EXCEPT ![entry.id] = handlers]
  /\ UNCHANGED fileOpen

\* FileBackend.Read(level, filter) under fb.mu: the error without a handle,
\* otherwise the entries parsed from the file
FileBackendRead(level, filter) ==
  IF ~fileOpen THEN [err |-> "not initialized", entries |-> <<>>]
  ELSE [err |-> "nil", entries |-> FileRead(disk, level, filter)]

\* ReadLogs(level, filter) on a manager with the file backend
ReadLogs(level, filter) == FileBackendRead(level, filter)

(***************************************************************************)
(* WriteLog.                                                               *)
(***************************************************************************)
\* the WriteLog calls made so far
RECURSIVE CallsOf(_)
CallsOf(S) ==
  IF S = {} THEN 0
  ELSE LET p == CHOOSE q \in S : TRUE IN call[p].n + CallsOf(S \ {p})

\* WriteLog up to the branch on lm.isAsync: lm.backend is set, the entry is
\* stamped with time.Now().
WriteLog(p, level, msg) ==
  /\ ~crashed
  /\ call[p].pc = "idle"
  /\ CallsOf(Producers) < MaxWrites
  /\ LET id == <<p, call[p].n + 1>>
     IN /\ call' = [call EXCEPT ![p] =
                      [pc |-> IF isAsync THEN "select" ELSE "write",
                       n |-> call[p].n + 1,
                       entry |-> LogEntry(id, level, msg, now),
                       snap |-> <<>>, i |-> 0]]
        /\ result' = [result EXCEPT ![id] = "pending"]
        /\ phase' = [phase EXCEPT ![id] = IF closer = "idle" THEN "before"
                                          ELSE IF closer = "returned" THEN "after"
                                          ELSE "overlap"]
  /\ UNCHANGED <<isAsync, auxVars, opVars, handlers, chanVars, worker, closer, fileVars, now, crashed,
                 written, writeOk, regAtWrite, handled>>

\* case lm.logChannel <- entry, the buffer having room: return nil
AsyncSend(p) ==
  /\ ~crashed
  /\ call[p].pc = "select"
  /\ ~chanClosed
  /\ Len(logChannel) < QueueCap
  /\ logChannel' = Append(logChannel, call[p].entry)
  /\ result' = [result EXCEPT ![call[p].entry.id] = "ok"]
  /\ call' = [call EXCEPT ![p] = IdleCall(call[p].n)]
  /\ UNCHANGED <<isAsync, auxVars, opVars, handlers, sendq, chanClosed, done, worker, closer, fileVars,
                 now, crashed, phase, written, writeOk, regAtWrite,
                 handled>>

\* AsyncBlock with the capacity not enforced: the entry is queued all the same
AsyncBlockEnqueue(p) ==
  /\ ~crashed
  /\ call[p].pc = "select"
  /\ ~chanClosed
  /\ Len(logChannel) >= QueueCap
  /\ logChannel' = Append(logChannel, call[p].entry)
  /\ result' = [result EXCEPT ![call[p].entry.id] = "ok"]
  /\ call' = [call EXCEPT ![p] = IdleCall(call[p].n)]
  /\ UNCHANGED <<isAsync, auxVars, opVars, handlers, sendq, chanClosed, done, worker, closer, fileVars,
                 now, crashed, phase, written, writeOk, regAtWrite, handled>>

\* AsyncBlock with the caller writing to the backend itself when the buffer is full
AsyncBlockWritesThrough(p) ==
  /\ ~crashed
  /\ call[p].pc = "select"
  /\ ~chanClosed
  /\ Len(logChannel) >= QueueCap
  /\ call' = [call EXCEPT ![p].pc = "write"]
  /\ UNCHANGED <<isAsync, auxVars, opVars, handlers, chanVars, worker, closer,
                 fileVars, now, crashed, histVars>>

\* the select finds the buffer full: the caller parks on the channel and the timer
AsyncBlock(p) ==
  /\ ~crashed
  /\ call[p].pc = "select"
  /\ ~chanClosed
  /\ Len(logChannel) >= QueueCap
  /\ sendq' = Append(sendq, p)
  /\ call' = [call EXCEPT ![p].pc = "blocked"]
  /\ UNCHANGED <<isAsync, auxVars, opVars, handlers, logChannel, chanClosed, done, worker, closer,
                 fileVars, now, crashed, histVars>>

RECURSIVE Without(_, _)
Without(q, p) ==
  IF q = <<>> THEN <<>>
  ELSE IF Head(q) = p THEN Without(Tail(q), p)
  ELSE <<Head(q)>> \o Without(Tail(q), p)

\* AsyncTimeout with the timer winning the select whatever the state of the queue
AsyncTimeoutAnytime(p) ==
  /\ ~crashed
  /\ call[p].pc \in {"select", "blocked"}
  /\ sendq' = Without(sendq, p)
  /\ result' = [result EXCEPT ![call[p].entry.id] = "saturated"]
  /\ call' = [call EXCEPT ![p] = IdleCall(call[p].n)]
  /\ UNCHANGED <<isAsync, auxVars, opVars, handlers, logChannel, chanClosed, done, worker, closer,
                 fileVars, now, crashed, phase, written, writeOk,
                 regAtWrite, handled>>

\* case <-time.After(100 * time.Millisecond): the entry is dropped.  The timer is
\* made when the select is entered and the select polls the channel at once, so
\* the timer case is taken only by a caller that found the buffer full and parked.
AsyncTimeout(p) ==
  /\ ~crashed
  /\ call[p].pc = "blocked"
  /\ sendq' = Without(sendq, p)
  /\ result' = [result EXCEPT ![call[p].entry.id] = "saturated"]
  /\ call' = [call EXCEPT ![p] = IdleCall(call[p].n)]
  /\ UNCHANGED <<isAsync, auxVars, opVars, handlers, logChannel, chanClosed, done, worker, closer,
                 fileVars, now, crashed, phase, written, writeOk,
                 regAtWrite, handled>>

\* the send case on the closed lm.logChannel: panic "send on closed channel"
AsyncSendClosed(p) ==
  /\ ~crashed
  /\ call[p].pc = "select"
  /\ chanClosed
  /\ crashed' = TRUE
  /\ result' = [result EXCEPT ![call[p].entry.id] = "panic"]
  /\ UNCHANGED <<isAsync, auxVars, opVars, handlers, chanVars, worker, call, closer, fileVars, now,
                 phase, written, writeOk, regAtWrite, handled>>

\* SyncWrite with the error of backend.Write dropped: WriteLog goes on to notify
SyncWriteIgnoresError(p) ==
  /\ ~crashed
  /\ call[p].pc = "write"
  /\ \E out \in WriteOutcomes : FileBackendWrite(call[p].entry, out)
  /\ call' = [call EXCEPT ![p].pc = "snapshot"]
  /\ UNCHANGED <<isAsync, auxVars, opVars, handlers, chanVars, worker, closer, now, crashed, result,
                 phase, handled>>

\* Sync mode: lm.backend.Write(entry); its error is returned to the caller.
SyncWrite(p) ==
  /\ ~crashed
  /\ call[p].pc = "write"
  /\ \E out \in WriteOutcomes :
       /\ FileBackendWrite(call[p].entry, out)
       /\ IF out = "ok"
          THEN /\ call' = [call EXCEPT ![p].pc = "snapshot"]
               /\ UNCHANGED result
          ELSE /\ call' = [call EXCEPT ![p] = IdleCall(call[p].n)]
               /\ result' = [result EXCEPT ![call[p].entry.id] = "error"]
  /\ UNCHANGED <<isAsync, auxVars, opVars, handlers, chanVars, worker, closer, now, crashed, phase,
                 handled>>

\* Sync mode: lm.mu.Lock() and handlers := lm.handlers
SyncSnapshot(p) ==
  /\ ~crashed
  /\ call[p].pc = "snapshot"
  /\ lmMu = "free"
  /\ lmMu' = CallerName(p)
  /\ call' = [call EXCEPT ![p].pc = "unlock", ![p].snap = handlers, ![p].i = 1]
  /\ UNCHANGED <<isAsync, diagnosed, fbMu, fbCall, opVars, handlers, chanVars, worker, closer,
                 fileVars, now, crashed, histVars>>

\* Sync mode: lm.mu.Unlock(); with no handler the loop is empty and WriteLog
\* returns nil.
SyncUnlock(p) ==
  /\ ~crashed
  /\ call[p].pc = "unlock"
  /\ lmMu' = "free"
  /\ IF call[p].snap = <<>>
     THEN /\ call' = [call EXCEPT ![p] = IdleCall(call[p].n)]
          /\ result' = [result EXCEPT ![call[p].entry.id] = "ok"]
     ELSE /\ call' = [call EXCEPT ![p].pc = "fanout"]
          /\ UNCHANGED result
  /\ UNCHANGED <<isAsync, diagnosed, fbMu, fbCall, opVars, handlers, chanVars, worker, closer,
                 fileVars, now, crashed, phase, written, writeOk, regAtWrite, handled>>

\* Sync mode: _ = h.Handle(entry) for the next handler of the snapshot; after the
\* last one WriteLog returns nil.
SyncHandle(p) ==
  /\ ~crashed
  /\ call[p].pc = "fanout"
  /\ handled' = [handled EXCEPT ![call[p].entry.id] = Append(@, call[p].snap[call[p].i])]
  /\ IF call[p].i = Len(call[p].snap)
     THEN /\ call' = [call EXCEPT ![p] = IdleCall(call[p].n)]
          /\ result' = [result EXCEPT ![call[p].entry.id] = "ok"]
     ELSE /\ call' = [call EXCEPT ![p].i = @ + 1]
          /\ UNCHANGED result
  /\ UNCHANGED <<isAsync, auxVars, opVars, handlers, chanVars, worker, closer, fileVars, now, crashed,
                 phase, written, writeOk, regAtWrite>>

(***************************************************************************)
(* The worker goroutine of startAsyncWorker.                               *)
(***************************************************************************)
\* Received with the entry left in the buffer
ReceivedPeek == [entry |-> Head(logChannel), buffer |-> logChannel]

\* Received with a parked sender served ahead of the buffer
ReceivedUnfair ==
  IF sendq = <<>>
  THEN [entry |-> Head(logChannel), buffer |-> Tail(logChannel)]
  ELSE [entry |-> call[Head(sendq)].entry, buffer |-> logChannel]

\* entry := <-lm.logChannel with the buffer not empty: the receive yields the
\* oldest buffered entry; the entry of the oldest parked sender, if there is one,
\* is moved into the slot this frees.
Received ==
  [entry |-> Head(logChannel),
   buffer |-> IF sendq = <<>> THEN Tail(logChannel)
              ELSE Append(Tail(logChannel), call[Head(sendq)].entry)]

\* The receive takes effect on the channel; a parked sender that was served
\* leaves the send queue and its WriteLog returns nil.
Receive ==
  /\ logChannel' = Received.buffer
  /\ IF sendq = <<>>
     THEN UNCHANGED <<sendq, call, result>>
     ELSE LET q == Head(sendq)
          IN /\ sendq' = Tail(sendq)
             /\ call' = [call EXCEPT ![q] = IdleCall(call[q].n)]
             /\ result' = [result EXCEPT ![call[q].entry.id] = "ok"]

\* running loop, case entry := <-lm.logChannel
ConsumerRecv ==
  /\ ~crashed
  /\ worker.pc = "select" /\ ~worker.drain
  /\ logChannel # <<>>
  /\ worker' = [worker EXCEPT !.pc = "write", !.entry = Received.entry]
  /\ Receive
  /\ UNCHANGED <<isAsync, auxVars, opVars, handlers, chanClosed, done, closer, fileVars, now, crashed,
                 phase, written, writeOk, regAtWrite, handled>>

\* running loop, case <-lm.done: go on to the drain loop
ConsumerDone ==
  /\ ~crashed
  /\ worker.pc = "select" /\ ~worker.drain
  /\ done
  /\ worker' = WorkerAt("select", TRUE)
  /\ UNCHANGED <<isAsync, auxVars, opVars, handlers, chanVars, call, closer, fileVars, now, crashed,
                 histVars>>

\* drain loop, case entry := <-lm.logChannel
DrainRecv ==
  /\ ~crashed
  /\ worker.pc = "select" /\ worker.drain
  /\ logChannel # <<>>
  /\ worker' = [worker EXCEPT !.pc = "write", !.entry = Received.entry]
  /\ Receive
  /\ UNCHANGED <<isAsync, auxVars, opVars, handlers, chanClosed, done, closer, fileVars, now, crashed,
                 phase, written, writeOk, regAtWrite, handled>>

\* DrainExit without the poll of the queue: the worker returns on the done signal
DrainExitEarly ==
  /\ ~crashed
  /\ worker.pc = "select" /\ worker.drain
  /\ worker' = WorkerAt("exit", TRUE)
  /\ UNCHANGED <<isAsync, auxVars, opVars, handlers, chanVars, call, closer, fileVars, now, crashed,
                 histVars>>

\* drain loop, default: return, and the deferred lm.wg.Done()
DrainExit ==
  /\ ~crashed
  /\ worker.pc = "select" /\ worker.drain
  /\ logChannel = <<>>
  /\ worker' = WorkerAt("exit", TRUE)
  /\ UNCHANGED <<isAsync, auxVars, opVars, handlers, chanVars, call, closer, fileVars, now, crashed,
                 histVars>>

\* ConsumerWrite with the call of backend.Write left out
ConsumerWriteOmitted ==
  /\ ~crashed
  /\ worker.pc = "write"
  /\ worker' = [worker EXCEPT !.pc = "snapshot"]
  /\ UNCHANGED <<isAsync, auxVars, opVars, handlers, chanVars, call, closer, fileVars, now, crashed,
                 histVars>>

\* ConsumerWrite with the worker returning on the error of backend.Write
ConsumerWriteStopsOnError ==
  /\ ~crashed
  /\ worker.pc = "write"
  /\ \E out \in WriteOutcomes :
       /\ FileBackendWrite(worker.entry, out)
       /\ worker' = IF out = "ok" THEN [worker EXCEPT !.pc = "snapshot"]
                    ELSE WorkerAt("exit", worker.drain)
  /\ UNCHANGED <<isAsync, auxVars, opVars, handlers, chanVars, call, closer, now, crashed, result,
                 phase, handled>>

\* lm.backend.Write(entry) in the worker: in the running loop its error is
\* printed, in the drain loop it is assigned to the blank identifier
ConsumerWrite ==
  /\ ~crashed
  /\ worker.pc = "write"
  /\ \E out \in WriteOutcomes :
       /\ FileBackendWrite(worker.entry, out)
       /\ diagnosed' = IF out # "ok" /\ ~worker.drain
                       THEN diagnosed \cup {worker.entry.id} ELSE diagnosed
  /\ worker' = [worker EXCEPT !.pc = "snapshot"]
  /\ UNCHANGED <<isAsync, lmMu, fbMu, fbCall, opVars, handlers, chanVars, call, closer, now, crashed, result,
                 phase, handled>>

\* ConsumerSnapshot with the observers left out: the worker is back at its select
ConsumerSnapshotSkipped ==
  /\ ~crashed
  /\ worker.pc = "snapshot"
  /\ worker' = WorkerAt("select", worker.drain)
  /\ UNCHANGED <<isAsync, auxVars, opVars, handlers, chanVars, call, closer, fileVars, now, crashed,
                 histVars>>

\* lm.mu.Lock() and the copy of lm.handlers, either loop
ConsumerSnapshot ==
  /\ ~crashed
  /\ worker.pc = "snapshot"
  /\ lmMu = "free"
  /\ lmMu' = "worker"
  /\ worker' = [worker EXCEPT !.pc = "unlock", !.snap = handlers, !.i = 1]
  /\ UNCHANGED <<isAsync, diagnosed, fbMu, fbCall, opVars, handlers, chanVars, call, closer, fileVars, now, crashed,
                 histVars>>

\* ConsumerHandle with the fanout abandoned when Handle returns an error
ConsumerHandleStopsOnError ==
  /\ ~crashed
  /\ worker.pc = "fanout"
  /\ handled' = [handled EXCEPT ![worker.entry.id] = Append(@, worker.snap[worker.i])]
  /\ worker' = IF worker.i = Len(worker.snap) \/ HandleErr(worker.snap[worker.i])
               THEN WorkerAt("select", worker.drain)
               ELSE [worker EXCEPT !.i = @ + 1]
  /\ UNCHANGED <<isAsync, auxVars, opVars, handlers, chanVars, call, closer, fileVars, now, crashed,
                 result, phase, written, writeOk, regAtWrite>>

\* ConsumerHandle with the loop running over lm.handlers itself, not over the copy
ConsumerHandleLive ==
  /\ ~crashed
  /\ worker.pc = "fanout"
  /\ handled' = [handled EXCEPT ![worker.entry.id] = Append(@, handlers[worker.i])]
  /\ worker' = IF worker.i = Len(handlers) THEN WorkerAt("select", worker.drain)
               ELSE [worker EXCEPT !.i = @ + 1]
  /\ UNCHANGED <<isAsync, auxVars, opVars, handlers, chanVars, call, closer, fileVars, now,
                 crashed, result, phase, written, writeOk, regAtWrite>>

\* _ = h.Handle(entry) for the next handler of the copy, either loop; what Handle
\* returns (HandleErr) is dropped
ConsumerHandle ==
  /\ ~crashed
  /\ worker.pc = "fanout"
  /\ handled' = [handled EXCEPT ![worker.entry.id] = Append(@, worker.snap[worker.i])]
  /\ worker' = IF worker.i = Len(worker.snap) THEN WorkerAt("select", worker.drain)
               ELSE [worker EXCEPT !.i = @ + 1]
  /\ UNCHANGED <<isAsync, auxVars, opVars, handlers, chanVars, call, closer, fileVars, now, crashed,
                 result, phase, written, writeOk, regAtWrite>>

(***************************************************************************)
(* RegisterLogHandler and Close.                                           *)
(***************************************************************************)
\* ConsumerUnlock with lm.mu kept through the fanout
ConsumerUnlockDeferred ==
  /\ ~crashed
  /\ worker.pc = "unlock"
  /\ worker' = IF worker.snap = <<>> THEN WorkerAt("select", worker.drain)
               ELSE [worker EXCEPT !.pc = "fanout"]
  /\ lmMu' = IF worker.snap = <<>> THEN "free" ELSE lmMu
  /\ UNCHANGED <<isAsync, diagnosed, fbMu, fbCall, opVars, handlers, chanVars, call, closer,
                 fileVars, now, crashed, histVars>>

\* lm.mu.Unlock() after the copy, either loop; the fanout over the copy follows,
\* and with an empty copy the worker is back at its select
ConsumerUnlock ==
  /\ ~crashed
  /\ worker.pc = "unlock"
  /\ lmMu' = "free"
  /\ worker' = IF worker.snap = <<>> THEN WorkerAt("select", worker.drain)
               ELSE [worker EXCEPT !.pc = "fanout"]
  /\ UNCHANGED <<isAsync, diagnosed, fbMu, fbCall, opVars, handlers, chanVars, call, closer,
                 fileVars, now, crashed, histVars>>

\* lm.mu.Lock(), the append, and the deferred lm.mu.Unlock()
RegisterLogHandler(h) ==
  /\ ~crashed
  /\ lmMu = "free"
  /\ Len(handlers) < MaxHandlers
  /\ handlers' = Append(handlers, h)
  /\ UNCHANGED <<isAsync, auxVars, opVars, chanVars, worker, call, closer, fileVars, now, crashed,
                 histVars>>

\* Close is entered; in async mode close(lm.done)
CloseStart ==
  /\ ~crashed
  /\ closer = "idle"
  /\ phase' = [id \in Ids |-> IF result[id] = "pending" THEN "overlap" ELSE phase[id]]
  /\ IF isAsync
     THEN done' = TRUE /\ closer' = "wait"
     ELSE closer' = "backend" /\ UNCHANGED done
  /\ UNCHANGED <<isAsync, auxVars, opVars, handlers, logChannel, sendq, chanClosed, worker, call,
                 fileVars, now, crashed, result, written, writeOk, regAtWrite,
                 handled>>

\* CloseWait with lm.wg.Wait() left out: Close goes on while the worker runs
CloseWaitSkipped ==
  /\ ~crashed
  /\ closer = "wait"
  /\ closer' = "chan"
  /\ UNCHANGED <<isAsync, auxVars, opVars, handlers, chanVars, worker, call, fileVars, now,
                 crashed, histVars>>

\* lm.wg.Wait() returns once the worker has run lm.wg.Done()
CloseWait ==
  /\ ~crashed
  /\ closer = "wait"
  /\ worker.pc = "exit"
  /\ closer' = "chan"
  /\ UNCHANGED <<isAsync, auxVars, opVars, handlers, chanVars, worker, call, fileVars, now, crashed,
                 histVars>>

\* close(lm.logChannel): every sender parked on the channel panics
CloseChannel ==
  /\ ~crashed
  /\ closer = "chan"
  /\ chanClosed' = TRUE
  /\ closer' = "backend"
  /\ crashed' = (sendq # <<>>)
  /\ result' = [id \in Ids |->
                  IF \E i \in 1..Len(sendq) : call[sendq[i]].entry.id = id
                  THEN "panic" ELSE result[id]]
  /\ UNCHANGED <<isAsync, auxVars, opVars, handlers, logChannel, sendq, done, worker, call, fileVars,
                 now, phase, written, writeOk, regAtWrite, handled>>

\* FileBackend.Close with the os.File closed whether or not fb.file is nil: the
\* second close of a file returns os.ErrClosed
FileBackendCloseUnguarded(open) ==
  [err |-> IF open THEN "nil" ELSE "closed", open |-> FALSE]

\* FileBackend.Close under fb.mu: with a handle, fb.file.Close() (taken to
\* succeed) and fb.file = nil; without one, nil at once
FileBackendClose(open) ==
  IF open THEN [err |-> "nil", open |-> FALSE]
  ELSE [err |-> "nil", open |-> FALSE]

\* SQLBackend.Close
SQLBackendClose == "nil"

\* lm.backend.Close() on the backend of the manager
BackendClose ==
  /\ FbMuFree
  /\ fileOpen' = IF ctor.backend = "file" THEN FileBackendClose(fileOpen).open ELSE fileOpen
  /\ backendCloses' = Append(backendCloses,
                             IF ctor.backend = "file" THEN FileBackendClose(fileOpen).err
                             ELSE SQLBackendClose)

\* return lm.backend.Close(): Close returns
CloseBackend ==
  /\ ~crashed
  /\ closer = "backend"
  /\ BackendClose
  /\ closer' = "returned"
  /\ UNCHANGED <<isAsync, auxVars, ctor, clear, handlers, chanVars, worker, call, disk, ioFails,
                 now, crashed, histVars>>

\* Close called on the manager once more: in async mode close(lm.done) on the
\* closed channel panics; in sync mode lm.backend.Close() runs again
CloseAgain ==
  /\ ~crashed
  /\ closer = "returned"
  /\ Len(backendCloses) < MaxCloses
  /\ IF isAsync
     THEN crashed' = TRUE /\ UNCHANGED <<fileOpen, backendCloses>>
     ELSE BackendClose /\ UNCHANGED crashed
  /\ UNCHANGED <<isAsync, auxVars, ctor, clear, handlers, chanVars, worker, call, closer, disk,
                 ioFails, now, histVars>>

\* NewLogManager with the worker and its queue set up before the backend
NewLogManagerStartsFirst(config, fs) ==
  /\ ctor.pc = "none"
  /\ LET err == IF config.Backend \notin {"file", "sql"} THEN "unsupported"
                ELSE IF BackendInit(config, fs) # "nil" THEN "init"
                ELSE "nil"
     IN /\ ctor' = IF err = "nil" THEN Built(config, fs)
                   ELSE [Failed(config, fs, err) EXCEPT
                           !.workers = IF config.Async THEN 1 ELSE 0,
                           !.queue = config.Async]
        /\ isAsync' = (config.Async /\ err = "nil")
        /\ worker' = WorkerAt(IF config.Async THEN "select" ELSE "none", FALSE)
        /\ fileOpen' = (err = "nil" /\ config.Backend = "file")
  /\ UNCHANGED <<auxVars, clear, backendCloses, handlers, chanVars, call, closer, disk, ioFails,
                 now, crashed, histVars>>

\* NewLogManager(config): the backend is chosen by kind and initialised; only
\* then, with Async set, are the queue and the done channel made and the worker
\* started
NewLogManager(config, fs) ==
  /\ ctor.pc = "none"
  /\ LET err == IF config.Backend \notin {"file", "sql"} THEN "unsupported"
                ELSE IF BackendInit(config, fs) # "nil" THEN "init"
                ELSE "nil"
     IN /\ ctor' = IF err = "nil" THEN Built(config, fs) ELSE Failed(config, fs, err)
        /\ isAsync' = (config.Async /\ err = "nil")
        /\ worker' = WorkerAt(IF config.Async /\ err = "nil" THEN "select" ELSE "none",
                              FALSE)
        /\ fileOpen' = (err = "nil" /\ config.Backend = "file")
  /\ UNCHANGED <<auxVars, clear, backendCloses, handlers, chanVars, call, closer, disk, ioFails,
                 now, crashed, histVars>>

\* ClearLogs(before) on the manager, the backend being the file backend:
\* FileBackend.ClearLogs locks fb.mu and returns an error when fb.file is nil;
\* otherwise it calls fb.Read, which locks fb.mu again.  sync.Mutex is not
\* reentrant, so the call stops there for good with fb.mu held (the Go runtime
\* ends the process when no goroutine is left to run); the filtering, truncation
\* and rewriting after the call of fb.Read are never reached.
ClearLogs(before) ==
  /\ ~crashed
  /\ BuiltFile
  /\ FbMuFree
  /\ clear' = [pc |-> IF fileOpen THEN "blocked" ELSE "error", before |-> before]
  /\ UNCHANGED <<isAsync, auxVars, ctor, backendCloses, handlers, chanVars, worker, call, closer,
                 fileVars, now, crashed, histVars>>

\* the wall clock advances
Tick ==
  /\ ~crashed
  /\ now < MaxTime
  /\ now' = now + 1
  /\ UNCHANGED <<isAsync, auxVars, opVars, handlers, chanVars, worker, call, closer, fileVars, crashed,
                 histVars>>

(***************************************************************************)
(* The FileBackend called by several goroutines, lock by lock.             *)
(***************************************************************************)
FbOps == {"Write", "Read", "ClearLogs", "Close"}

\* the method goroutine t is executing: the innermost call
FbTop(t) == fbCall[t].stack[Len(fbCall[t].stack)]

\* the entry goroutine t hands to FileBackend.Write in its n-th call
FbEntry(t) == LogEntry(<<t, fbCall[t].n>>, LevelInfo, MsgOf(t, fbCall[t].n), now)

\* goroutine t calls a method of the backend
FbCall(t, op) ==
  /\ fbCall[t].pc = "idle"
  /\ fbCall[t].n < MaxFbCalls
  /\ fbCall' = [fbCall EXCEPT ![t] = [stack |-> <<op>>, pc |-> "lock", n |-> @.n + 1]]
  /\ UNCHANGED <<isAsync, diagnosed, lmMu, fbMu, opVars, handlers, chanVars, worker, call,
                 closer, fileVars, now, crashed, histVars>>

\* FbLock with the lock taken whoever holds it
FbLockNoWait(t) ==
  /\ fbCall[t].pc = "lock"
  /\ fbMu' = t
  /\ fbCall' = [fbCall EXCEPT ![t].pc =
                  IF FbTop(t) # "Close" /\ ~fileOpen THEN "unlock" ELSE "body"]
  /\ UNCHANGED <<isAsync, diagnosed, lmMu, opVars, handlers, chanVars, worker, call,
                 closer, fileVars, now, crashed, histVars>>

\* fb.mu.Lock() at the head of the method, once the lock is free, and the test of
\* fb.file: Write, Read and ClearLogs return the error when it is nil
FbLock(t) ==
  /\ fbCall[t].pc = "lock"
  /\ fbMu = 0
  /\ fbMu' = t
  /\ fbCall' = [fbCall EXCEPT ![t].pc =
                  IF FbTop(t) # "Close" /\ ~fileOpen THEN "unlock" ELSE "body"]
  /\ UNCHANGED <<isAsync, diagnosed, lmMu, opVars, handlers, chanVars, worker, call,
                 closer, fileVars, now, crashed, histVars>>

\* the locked section: Write appends its line with one WriteString, or appends
\* nothing when WriteString fails; Read scans
\* the file; Close closes the handle, if there is one, and goes on to drop it;
\* ClearLogs calls fb.Read, whose first statement is fb.mu.Lock()
FbBody(t) ==
  /\ fbCall[t].pc = "body"
  /\ \E out \in (IF FbTop(t) = "Write" THEN WriteOutcomes ELSE {"none"}) :
       /\ disk' = IF out = "ok" THEN disk \o FormatLine(FbEntry(t)) ELSE disk
       /\ ioFails' = IF out = "io" THEN ioFails + 1 ELSE ioFails
  /\ fbCall' = [fbCall EXCEPT ![t] =
                  IF FbTop(t) = "ClearLogs"
                  THEN [@ EXCEPT !.stack = Append(@, "Read"), !.pc = "lock"]
                  ELSE IF FbTop(t) = "Close" /\ fileOpen THEN [@ EXCEPT !.pc = "drop"]
                  ELSE [@ EXCEPT !.pc = "unlock"]]
  /\ UNCHANGED <<isAsync, diagnosed, lmMu, fbMu, opVars, handlers, chanVars, worker, call,
                 closer, fileOpen, now, crashed, histVars>>

\* Close: fb.file = nil after fb.file.Close()
FbDrop(t) ==
  /\ fbCall[t].pc = "drop"
  /\ fileOpen' = FALSE
  /\ fbCall' = [fbCall EXCEPT ![t].pc = "unlock"]
  /\ UNCHANGED <<isAsync, diagnosed, lmMu, fbMu, opVars, handlers, chanVars, worker, call,
                 closer, disk, ioFails, now, crashed, histVars>>

\* the deferred fb.mu.Unlock() and the return of the method to the caller of the
\* backend
FbUnlock(t) ==
  /\ fbCall[t].pc = "unlock"
  /\ Len(fbCall[t].stack) = 1
  /\ fbMu' = 0
  /\ fbCall' = [fbCall EXCEPT ![t] = IdleFbCall(@.n)]
  /\ UNCHANGED <<isAsync, diagnosed, lmMu, opVars, handlers, chanVars, worker, call,
                 closer, fileVars, now, crashed, histVars>>

(***************************************************************************)
(* Specifications.                                                         *)
(***************************************************************************)
\* The manager in either mode under concurrent callers, each logging its own
\* numbered messages at level INFO.
Next ==
  \/ \E p \in Producers : WriteLog(p, LevelInfo, MsgOf(p, call[p].n + 1))
  \/ \E p \in Producers : AsyncSend(p)
  \/ \E p \in Producers : AsyncBlock(p)
  \/ \E p \in Producers : AsyncTimeout(p)
  \/ \E p \in Producers : AsyncSendClosed(p)
  \/ \E p \in Producers : SyncWrite(p)
  \/ \E p \in Producers : SyncSnapshot(p)
  \/ \E p \in Producers : SyncUnlock(p)
  \/ \E p \in Producers : SyncHandle(p)
  \/ ConsumerRecv
  \/ ConsumerDone
  \/ DrainRecv
  \/ DrainExit
  \/ ConsumerWrite
  \/ ConsumerSnapshot
  \/ ConsumerUnlock
  \/ ConsumerHandle
  \/ \E h \in Handlers : RegisterLogHandler(h)
  \/ CloseStart
  \/ CloseWait
  \/ CloseChannel
  \/ CloseBackend

Spec == Init /\ [][Next]_vars

\* A sync manager on the file backend used by one caller, which logs arbitrary
\* levels and messages while the clock runs.
FileInit == isAsync = FALSE /\ InitCommon

FileNext ==
  \/ \E level \in Levels, msg \in Messages :
       call[1].n < MaxFileWrites /\ WriteLog(1, level, msg)
  \/ SyncWrite(1)
  \/ SyncSnapshot(1)
  \/ SyncUnlock(1)
  \/ Tick
  \/ CloseStart
  \/ CloseBackend
  \/ \E before \in 0..MaxTime : ClearLogs(before)

FileSpec == FileInit /\ [][FileNext]_vars

\* The open file backend of a sync manager, its methods called by several
\* goroutines at once.
LockNext ==
  \/ \E t \in Producers, op \in FbOps : FbCall(t, op)
  \/ \E t \in Producers : FbLock(t)
  \/ \E t \in Producers : FbBody(t)
  \/ \E t \in Producers : FbDrop(t)
  \/ \E t \in Producers : FbUnlock(t)

LockSpec == FileInit /\ [][LockNext]_vars

\* The life of a manager from NewLogManager to Close and calls of Close after it,
\* for every configuration; a manager on the file backend also takes one WriteLog
\* call.
NewInit ==
  /\ isAsync = FALSE
  /\ ctor = NotBuilt
  /\ clear = [pc |-> "idle", before |-> 0]
  /\ backendCloses = <<>>
  /\ diagnosed = {}
  /\ lmMu = "free"
  /\ fbMu = 0
  /\ fbCall = [t \in Producers |-> IdleFbCall(0)]
  /\ handlers = <<>>
  /\ logChannel = <<>> /\ sendq = <<>> /\ chanClosed = FALSE /\ done = FALSE
  /\ worker = WorkerAt("none", FALSE)
  /\ call = [p \in Producers |-> IdleCall(0)]
  /\ closer = "idle"
  /\ fileOpen = FALSE /\ disk = <<>> /\ ioFails = 0
  /\ now = 0
  /\ crashed = FALSE
  /\ result = [id \in Ids |-> "none"]
  /\ phase = [id \in Ids |-> "none"]
  /\ written = <<>>
  /\ writeOk = {}
  /\ regAtWrite = [id \in Ids |-> <<>>]
  /\ handled = [id \in Ids |-> <<>>]

LifeNext ==
  \/ \E config \in Configs, fs \in FsOutcomes : NewLogManager(config, fs)
  \/ BuiltFile /\ call[1].n < 1 /\ WriteLog(1, LevelInfo, MsgOf(1, 1))
  \/ BuiltFile /\ AsyncSend(1)
  \/ BuiltFile /\ AsyncSendClosed(1)
  \/ BuiltFile /\ SyncWrite(1)
  \/ BuiltFile /\ SyncSnapshot(1)
  \/ BuiltFile /\ SyncUnlock(1)
  \/ BuiltFile /\ ConsumerRecv
  \/ BuiltFile /\ DrainRecv
  \/ BuiltFile /\ ConsumerWrite
  \/ BuiltFile /\ ConsumerSnapshot
  \/ BuiltFile /\ ConsumerUnlock
  \/ ctor.err = "nil" /\ ConsumerDone
  \/ ctor.err = "nil" /\ DrainExit
  \/ ctor.err = "nil" /\ CloseStart
  \/ ctor.err = "nil" /\ CloseWait
  \/ ctor.err = "nil" /\ CloseChannel
  \/ ctor.err = "nil" /\ CloseBackend
  \/ ctor.err = "nil" /\ CloseAgain

LifeSpec == NewInit /\ [][LifeNext]_vars

\* An async manager whose goroutines are scheduled fairly: the worker, the
\* callers inside WriteLog and the caller of Close take their next step when they
\* can.  Nothing is assumed of the observers: a call of Handle may never return.
AsyncInit == isAsync = TRUE /\ InitCommon

StallNext ==
  \/ \E p \in Producers :
       CallsOf(Producers) < MaxLiveWrites /\ WriteLog(p, LevelInfo, MsgOf(p, call[p].n + 1))
  \/ \E p \in Producers : AsyncSend(p)
  \/ \E p \in Producers : AsyncBlock(p)
  \/ \E p \in Producers : AsyncTimeout(p)
  \/ \E p \in Producers : AsyncSendClosed(p)
  \/ ConsumerRecv
  \/ ConsumerDone
  \/ DrainRecv
  \/ DrainExit
  \/ ConsumerWrite
  \/ ConsumerSnapshot
  \/ ConsumerUnlock
  \/ ConsumerHandle
  \/ \E h \in Handlers : RegisterLogHandler(h)
  \/ CloseStart
  \/ CloseWait
  \/ CloseChannel
  \/ CloseBackend

\* the steps of the worker other than the return of an observer's Handle
WorkerStep ==
  \/ ConsumerRecv \/ ConsumerDone \/ DrainRecv \/ DrainExit
  \/ ConsumerWrite \/ ConsumerSnapshot \/ ConsumerUnlock

\* the steps of a caller inside the select of WriteLog
SelectStep(p) == AsyncSend(p) \/ AsyncBlock(p) \/ AsyncTimeout(p) \/ AsyncSendClosed(p)

\* the steps of Close after close(lm.done)
CloseStep == CloseWait \/ CloseChannel \/ CloseBackend

StallSpec ==
  /\ AsyncInit
  /\ [][StallNext]_vars
  /\ WF_vars(WorkerStep)
  /\ WF_vars(CloseStep)
  /\ \A p \in Producers : WF_vars(SelectStep(p))

\* An async manager that is closed while callers make their last calls: every
\* goroutine is scheduled fairly and every observer's Handle returns.
DrainSpec ==
  /\ AsyncInit
  /\ [][StallNext]_vars
  /\ WF_vars(WorkerStep)
  /\ WF_vars(ConsumerHandle)
  /\ WF_vars(CloseStep)
  /\ \A p \in Producers : WF_vars(SelectStep(p))

\* An async manager that is never closed, with a worker that is scheduled fairly
\* and backend and observer calls that return.
LiveNext ==
  \/ \E p \in Producers :
       CallsOf(Producers) < MaxLiveWrites /\ WriteLog(p, LevelInfo, MsgOf(p, call[p].n + 1))
  \/ \E p \in Producers : AsyncSend(p)
  \/ \E p \in Producers : AsyncBlock(p)
  \/ \E p \in Producers : AsyncTimeout(p)
  \/ ConsumerRecv
  \/ ConsumerWrite
  \/ ConsumerSnapshot
  \/ ConsumerUnlock
  \/ ConsumerHandle
  \/ \E h \in Handlers : RegisterLogHandler(h)

LiveSpec ==
  /\ AsyncInit
  /\ [][LiveNext]_vars
  /\ WF_vars(WorkerStep)
  /\ WF_vars(ConsumerHandle)

(***************************************************************************)
(* Properties.                                                             *)
(***************************************************************************)
WrittenIds == {written[i].id : i \in 1..Len(written)}
Accepted == {id \in Ids : result[id] = "ok"}
Rejected == {id \in Ids : result[id] = "saturated"}
Unwritten == Accepted \ WrittenIds
Count(seq, x) == Cardinality({i \in 1..Len(seq) : seq[i] = x})
\* the entries a reader of the file gets with no level and no filter
StoreEntries == FileRead(disk, <<>>, EmptyFilter)
\* the store holds the message of call id of the concurrent runs
InStore(id) == \E i \in 1..Len(StoreEntries) : StoreEntries[i].msg = MsgOf(id[1], id[2])
\* every WriteLog call had returned when Close was invoked, or began after it returned
NoOverlap == \A id \in Ids : phase[id] # "overlap"

\* C1: in async mode, once Close has returned, every entry whose WriteLog returned
\* nil has been handed to backend.Write and, its write having succeeded, is in the
\* store; no accepted entry is lost, whatever the interleaving with Close.
C1_NoAcceptedEntryLost ==
  (isAsync /\ closer = "returned") =>
    \A id \in Accepted : id \in WrittenIds /\ (id \in writeOk => InStore(id))

\* C2: in async mode, if every WriteLog call returned before Close was invoked,
\* then once Close has returned the queue is empty and every accepted entry has
\* been dequeued and handed to backend.Write.
C2_DrainedBeforeCloseReturns ==
  (isAsync /\ closer = "returned" /\ NoOverlap) =>
    /\ logChannel = <<>>
    /\ \A id \in Accepted : id \in WrittenIds

C2_Witness ==
  /\ isAsync /\ closer = "returned" /\ NoOverlap
  /\ Cardinality(Accepted) = MaxWrites
  /\ Len(written) = MaxWrites

C4_Backpressure ==
  /\ [](isAsync => Cardinality(Unwritten) <= QueueCap + 1)
  /\ [][\A p \in Producers :
          (/\ isAsync
           /\ call[p].pc \in {"select", "blocked"}
           /\ Len(logChannel) = QueueCap
           /\ logChannel' = logChannel
           /\ call'[p].pc = "idle")
          => result'[call[p].entry.id] = "saturated"]_vars

\* the worker is inside backend.Write, the queue is full, one more entry was rejected
C4_Witness ==
  /\ isAsync
  /\ worker.pc = "write"
  /\ Len(logChannel) = QueueCap
  /\ Cardinality(Unwritten) = QueueCap + 1
  /\ Rejected # {}

\* C5: an async WriteLog call invoked before Close has returned can always go on
\* to return nil or the queue-saturated error: while it is in flight it can send,
\* or park and then be served or time out.
C5_WriteLogReturns ==
  \A p \in Producers :
    (isAsync /\ call[p].pc \in {"select", "blocked"} /\ phase[call[p].entry.id] # "after")
      => ENABLED (AsyncSend(p) \/ AsyncBlock(p) \/ AsyncTimeout(p))

\* C6 as claimed: in async mode no entry is handed to backend.Write twice, no
\* rejected entry is written or shown to an observer, and no observer is invoked
\* more than once for an entry.
C6_ObserverAtMostOnce ==
  isAsync =>
    /\ \A id \in Ids : Count([i \in 1..Len(written) |-> written[i].id], id) <= 1
    /\ \A id \in Rejected : id \notin WrittenIds /\ handled[id] = <<>>
    /\ \A id \in Ids : handled[id] # <<>> => id \in Accepted
    /\ \A id \in Ids, h \in Handlers : Count(handled[id], h) <= 1

\* C6 as amended: in async mode no entry is handed to backend.Write twice, no
\* rejected entry is written or shown to an observer, and an observer is invoked
\* for an entry at most as many times as it is registered.
C6_OncePerRegistration ==
  isAsync =>
    /\ \A id \in Ids : Count([i \in 1..Len(written) |-> written[i].id], id) <= 1
    /\ \A id \in Rejected : id \notin WrittenIds /\ handled[id] = <<>>
    /\ \A id \in Ids : handled[id] # <<>> => id \in Accepted
    /\ \A id \in Ids, h \in Handlers : Count(handled[id], h) <= Count(handlers, h)

\* one entry was rejected; another was written and shown to both observers in the
\* drain loop
C6_Witness ==
  /\ isAsync /\ worker.drain
  /\ Rejected # {}
  /\ \E id \in Accepted : id \in WrittenIds /\ handled[id] = <<"h1", "h2">>

\* C7: an entry is handed to backend.Write only after its send on the queue was
\* accepted (async), and an observer's Handle runs for an entry only after
\* backend.Write was called for it and returned, in sync mode with success.
C7_WriteThenFanout ==
  \A id \in Ids :
    /\ (isAsync /\ id \in WrittenIds) => id \in Accepted
    /\ handled[id] # <<>> => id \in WrittenIds
    /\ (~isAsync /\ handled[id] # <<>>) => id \in writeOk

C7_Witness ==
  /\ isAsync
  /\ \E id \in Accepted : id \in writeOk /\ Len(handled[id]) = 2

\* C8: an async WriteLog call invoked before Close has returned ends accepted or
\* rejected; it never sends on the closed queue.
C8_AcceptedOrRejected ==
  \A id \in Ids :
    (isAsync /\ phase[id] \in {"before", "overlap"})
      => result[id] \in {"pending", "ok", "saturated"}

RECURSIVE IsSubseq(_, _)
IsSubseq(a, b) ==
  IF a = <<>> THEN TRUE
  ELSE IF b = <<>> THEN FALSE
  ELSE IF Head(a) = Head(b) THEN IsSubseq(Tail(a), Tail(b))
  ELSE IsSubseq(a, Tail(b))

IsPrefix(a, b) == Len(a) <= Len(b) /\ SubSeq(b, 1, Len(a)) = a

LevelAndMessage(seq) == [i \in 1..Len(seq) |-> [level |-> seq[i].level, msg |-> seq[i].msg]]
\* the entries whose WriteLog returned nil, in the order of the calls of backend.Write
ReturnedOk == SelectSeq(written, LAMBDA e : result[e.id] = "ok")

\* C9: in sync mode on an open file backend, the entries whose WriteLog returned
\* nil are read back by ReadLogs("", LogFilter{}) with their level and message, in
\* the order they were written.
C9_SyncRoundTrip ==
  (~isAsync /\ fileOpen) =>
    IsSubseq(LevelAndMessage(ReturnedOk), LevelAndMessage(StoreEntries))

\* C10: in sync mode a WriteLog that returned the error of backend.Write invoked
\* no observer, and a WriteLog that returned nil wrote its entry and invoked every
\* observer registered when the write returned.
C10_SyncWriteThenNotify ==
  ~isAsync =>
    \A id \in Ids :
      /\ result[id] = "error" =>
           id \in WrittenIds /\ id \notin writeOk /\ handled[id] = <<>>
      /\ result[id] = "ok" =>
           id \in writeOk /\ IsPrefix(regAtWrite[id], handled[id])

\* one write failed; another succeeded with an observer registered, and a second
\* observer registered before the snapshot was invoked as well
C10_Witness ==
  /\ ~isAsync
  /\ \E id \in Ids : result[id] = "error"
  /\ \E id \in Ids :
       result[id] = "ok" /\ Len(regAtWrite[id]) = 1 /\ Len(handled[id]) = 2

\* the worker can take its next step: it is not stuck inside an entry, and with an
\* entry buffered it can receive
WorkerCanStep ==
  /\ worker.pc \in {"write", "snapshot", "unlock", "fanout"}
       => ENABLED (ConsumerWrite \/ ConsumerSnapshot \/ ConsumerUnlock \/ ConsumerHandle)
  /\ (worker.pc = "select" /\ logChannel # <<>>) => ENABLED (ConsumerRecv \/ DrainRecv)

\* C11: in async mode a failed backend.Write is never returned to a WriteLog
\* caller and neither ends nor blocks the worker: the worker returns only after the
\* done signal, it can always go on with its current entry and receive the next
\* buffered one, and once it is through with an entry whose write failed it has
\* invoked every observer registered when that write returned.
C11_WriteErrorContained ==
  isAsync =>
    /\ \A id \in Ids : result[id] # "error"
    /\ worker.pc = "exit" => (done /\ worker.drain)
    /\ ~crashed => WorkerCanStep
    /\ \A id \in WrittenIds \ writeOk :
         worker.entry.id # id => IsPrefix(regAtWrite[id], handled[id])

\* the first write failed with an observer registered, the observer was invoked
\* for that entry, and the next entry was then written in the drain loop
C11_Witness ==
  /\ isAsync /\ worker.drain /\ worker.pc = "snapshot"
  /\ Len(written) = 2
  /\ written[1].id \notin writeOk /\ regAtWrite[written[1].id] # <<>>
  /\ handled[written[1].id] = regAtWrite[written[1].id]
  /\ written[2].id \in writeOk

\* some observer's Handle returned an error for the entry of call id
HandleFailed(id) == \E i \in 1..Len(handled[id]) : HandleErr(handled[id][i])

\* C12: the error of an observer's Handle is swallowed in both modes.  During a
\* fanout every observer of the snapshot before the current one has been invoked,
\* whatever the earlier ones returned, and the next one can be invoked; once the
\* fanout of an entry with a failed Handle is over, every observer registered at
\* the write has been invoked; the sync WriteLog returns nil, the async result
\* stays nil, and the worker goes on.
C12_HandleErrorSwallowed ==
  /\ (worker.pc = "fanout" /\ ~crashed) =>
       /\ handled[worker.entry.id] = SubSeq(worker.snap, 1, worker.i - 1)
       /\ ENABLED ConsumerHandle
  /\ \A p \in Producers : (call[p].pc = "fanout" /\ ~crashed) =>
       /\ handled[call[p].entry.id] = SubSeq(call[p].snap, 1, call[p].i - 1)
       /\ ENABLED SyncHandle(p)
  /\ \A id \in Ids : HandleFailed(id) =>
       /\ result[id] \in (IF isAsync THEN {"ok"} ELSE {"pending", "ok"})
       /\ (isAsync /\ worker.entry.id # id) => IsPrefix(regAtWrite[id], handled[id])
       /\ (~isAsync /\ result[id] = "ok") => IsPrefix(regAtWrite[id], handled[id])
       /\ (isAsync /\ ~crashed) => WorkerCanStep
       /\ (isAsync /\ worker.pc = "exit") => done

\* the failing observer was invoked first and the other one after it; the worker
\* then wrote the next entry
C12_Witness ==
  /\ isAsync
  /\ Len(written) = 2
  /\ handled[written[1].id] = <<"h1", "h2">>
  /\ written[2].id \in writeOk

\* the entry of call id sits in the buffer of lm.logChannel
Buffered(id) == \E i \in 1..Len(logChannel) : logChannel[i].id = id

\* C13: whatever an observer does, even if its Handle never returns, an entry
\* buffered behind the one the worker is showing to the observers is eventually
\* handed to backend.Write, and a Close waiting for the worker eventually returns
\* (unless the process has crashed).
C13_ObserverCannotStall ==
  /\ \A id \in Ids :
       (worker.pc = "fanout" /\ Buffered(id)) ~> (id \in WrittenIds \/ crashed)
  /\ (closer = "wait") ~> (closer = "returned" \/ crashed)

\* C14: a ClearLogs(before) call made on the open file backend has returned nil,
\* and the store then holds only entries stamped after before.
C14_ClearLogsCompletes ==
  (clear.pc # "idle" /\ fileOpen) =>
    /\ clear.pc = "ok"
    /\ \A i \in 1..Len(StoreEntries) : StoreEntries[i].ts > clear.before

\* C15: NewLogManager returns the error and no manager exactly when the kind is
\* neither file nor sql or backend.Init fails, a settings value of the other
\* kind's type included; then no worker was started and no queue made.  When it
\* returns a manager, one worker was started and the queue made if Async is set,
\* and none otherwise.
C15_NewLogManager ==
  ctor.pc = "returned" =>
    LET config == ctor.config
        bad == \/ config.Backend \notin {"file", "sql"}
               \/ config.Backend = "file" /\ config.BackendConfig # "FileConfig"
               \/ config.Backend = "file" /\ ctor.fs # "ok"
               \/ config.Backend = "sql" /\ config.BackendConfig # "SQLConfig"
    IN /\ bad <=> ctor.err # "nil"
       /\ ctor.err # "nil" =>
            /\ ctor.backend = "none"
            /\ ctor.workers = 0 /\ worker.pc = "none"
            /\ ~ctor.queue
       /\ ctor.err = "nil" =>
            /\ ctor.workers = (IF config.Async THEN 1 ELSE 0)
            /\ ctor.queue = config.Async
            /\ (worker.pc # "none") = config.Async

\* NewLogManager was given Async and the file kind with SQL settings, and failed
C15_Witness ==
  /\ ctor.pc = "returned" /\ ctor.err = "init"
  /\ ctor.config.Async
  /\ ctor.config.Backend = "file" /\ ctor.config.BackendConfig = "SQLConfig"

\* C17: every call of lm.backend.Close() after the first one returns nil, on the
\* file backend and on the SQL backend, and the backend stays closed.
C17_BackendCloseIdempotent ==
  Len(backendCloses) >= 1 =>
    /\ ~fileOpen
    /\ \A i \in 2..Len(backendCloses) : backendCloses[i] = "nil"

\* the file backend was closed as many times as the run allows
C17_Witness ==
  /\ ctor.backend = "file"
  /\ Len(backendCloses) = MaxCloses
  /\ ~fileOpen

\* C16: once Close has returned, ReadLogs returns an error, and a WriteLog call
\* begun after that returns an error: it does not panic and its entry does not
\* reach the store.
C16_FailsAfterClose ==
  closer = "returned" =>
    /\ ReadLogs(<<>>, EmptyFilter).err # "nil"
    /\ \A id \in Ids : phase[id] = "after" =>
         /\ result[id] \in {"pending", "error", "saturated"}
         /\ id \notin writeOk

\* the WriteLog calls made so far
Submitted == {id \in Ids : result[id] # "none"}

Registered(h) == Count(handlers, h) >= 1

\* C19 as claimed: with no Close, an accepted entry is eventually handed to
\* backend.Write, and an observer registered before the WriteLog call is
\* eventually invoked for it, and never more than once.
C19_DeliveredExactlyOnce ==
  \A id \in Ids :
    /\ (result[id] = "ok") ~> (id \in WrittenIds)
    /\ \A h \in Handlers :
         /\ []((Registered(h) /\ result[id] = "none")
                 => [](result[id] = "ok" => <>(Count(handled[id], h) >= 1)))
         /\ [](Count(handled[id], h) <= 1)

\* C19 as amended: with no Close, an accepted entry is eventually handed to
\* backend.Write, and an observer registered before the WriteLog call is
\* eventually invoked for it, and never more often than it is registered.
C19_DeliveredOncePerRegistration ==
  \A id \in Ids :
    /\ (result[id] = "ok") ~> (id \in WrittenIds)
    /\ \A h \in Handlers :
         /\ []((Registered(h) /\ result[id] = "none")
                 => [](result[id] = "ok" => <>(Count(handled[id], h) >= 1)))
         /\ [](Count(handled[id], h) <= Count(handlers, h))

\* both calls were accepted and written, and both observers, registered before
\* the second call, were invoked for its entry
C19_Witness ==
  /\ Len(written) = MaxLiveWrites
  /\ \A i \in 1..Len(written) : result[written[i].id] = "ok"
  /\ regAtWrite[written[1].id] = <<"h1", "h2">>
  /\ handled[written[Len(written)].id] = <<"h1", "h2">>
  /\ worker.pc = "select"

\* the entries whose backend.Write returned nil, in the order of the writes
WrittenOk == SelectSeq(written, LAMBDA e : e.id \in writeOk)

\* entry e, as it was written, satisfies the level and every condition of filter
Matches(e, level, filter) ==
  /\ level = <<>> \/ e.level = level
  /\ filter.Contains = <<>> \/ ContainsStr(e.msg, filter.Contains)
  /\ filter.StartTime = NilTime \/ e.ts >= filter.StartTime
  /\ filter.EndTime = NilTime \/ e.ts <= filter.EndTime

\* every message written so far is a single line with no white space around it
PlainMessages == \A i \in 1..Len(written) : written[i].msg \in {<<>>, <<"a">>}

\* C20: on the open file backend, the messages written being plain, ReadLogs(level,
\* filter) returns exactly the written entries that satisfy the level and all the
\* conditions of the filter, for every level and filter.
C20_ReadLogsFilters ==
  (~isAsync /\ fileOpen /\ PlainMessages) =>
    \A level \in Levels \cup {<<>>}, filter \in Filters :
      LevelAndMessage(ReadLogs(level, filter).entries)
        = LevelAndMessage(SelectSeq(WrittenOk, LAMBDA e : Matches(e, level, filter)))

\* the goroutine of startAsyncWorker is running
WorkerActive == worker.pc \notin {"none", "exit"}

\* C21: an async manager started one worker.  The worker is active until it
\* returns, which it does only in the drain loop after the done signal, and it
\* stays returned.  In async mode no caller is inside backend.Write, and every
\* call of backend.Write is a step of the worker for the entry it holds, so the
\* writes come one after the other.
C21_OneConsumer ==
  /\ [](isAsync =>
          /\ ctor.workers = 1
          /\ worker.pc # "none"
          /\ ~done => WorkerActive
          /\ ~WorkerActive => (done /\ worker.drain /\ closer # "idle")
          /\ \A p \in Producers : call[p].pc \notin {"write", "snapshot", "unlock", "fanout"})
  /\ [][isAsync =>
          /\ ~WorkerActive => worker' = worker
          /\ written' # written =>
               /\ worker.pc = "write" /\ worker'.pc = "snapshot"
               /\ written' = Append(written, worker.entry)]_vars

\* the worker wrote in the running loop and in the drain loop and then returned
C21_Witness ==
  /\ isAsync
  /\ worker.pc = "exit"
  /\ Len(written) = 3
  /\ closer = "wait"

\* C22: Close of an async manager goes in the order close(lm.done), worker
\* returned, close(lm.logChannel), backend.Close().  The channel is closed and the
\* backend is closed only with the worker returned, so the worker calls
\* backend.Write only before the first backend.Close().
C22_ShutdownOrder ==
  /\ [](isAsync =>
          /\ closer # "idle" => done
          /\ closer \in {"chan", "backend", "returned"} => ~WorkerActive
          /\ chanClosed => closer \in {"backend", "returned"}
          /\ backendCloses # <<>> => (chanClosed /\ ~WorkerActive /\ closer = "returned"))
  /\ [][isAsync =>
          /\ backendCloses' # backendCloses => ~WorkerActive
          /\ written' # written => (backendCloses = <<>> /\ fileOpen /\ closer \in {"idle", "wait"})
        ]_vars

\* Close closed the backend after the worker had written an entry in its drain
\* loop and returned
C22_Witness ==
  /\ isAsync
  /\ closer = "returned" /\ backendCloses = <<"nil">>
  /\ worker.pc = "exit"
  /\ Len(written) = 1 /\ phase[written[1].id] = "overlap"

\* C23: the snapshot a worker or a sync caller takes under lm.mu is lm.handlers
\* as it is at that step, and it does not change afterwards; during the fanout
\* the observers invoked so far are the snapshot up to the current one, in order;
\* when the fanout of an entry ends, the observers invoked for it are exactly
\* the snapshot.  An observer registered after the snapshot is thus not invoked
\* for that entry, and is in every snapshot taken later.
C23_SnapshotFanout ==
  /\ [](~crashed =>
          /\ worker.pc = "fanout" =>
               handled[worker.entry.id] = SubSeq(worker.snap, 1, worker.i - 1)
          /\ \A p \in Producers : call[p].pc = "fanout" =>
               handled[call[p].entry.id] = SubSeq(call[p].snap, 1, call[p].i - 1))
  /\ [][
         /\ (worker.pc = "snapshot" /\ worker'.pc = "unlock") => worker'.snap = handlers
         /\ (worker.pc \in {"unlock", "fanout"} /\ worker'.pc \in {"unlock", "fanout"})
              => worker'.snap = worker.snap
         /\ (worker.pc \in {"unlock", "fanout"} /\ worker'.pc \in {"select", "exit"})
              => handled'[worker.entry.id] = worker.snap
         /\ \A p \in Producers :
              /\ (call[p].pc = "snapshot" /\ call'[p].pc = "unlock")
                   => call'[p].snap = handlers
              /\ (call[p].pc \in {"unlock", "fanout"} /\ call'[p].pc \in {"unlock", "fanout"})
                   => call'[p].snap = call[p].snap
              /\ (call[p].pc \in {"unlock", "fanout"} /\ call'[p].pc = "idle")
                   => handled'[call[p].entry.id] = call[p].snap
        ]_vars

\* the second observer was registered after the snapshot for the first entry; it
\* was not invoked for that entry and was invoked for the next one
C23_Witness ==
  /\ isAsync
  /\ Len(written) = 2
  /\ handlers = <<"h1", "h2">>
  /\ handled[written[1].id] = <<"h1">>
  /\ handled[written[2].id] = <<"h1", "h2">>
  /\ worker.pc = "select"

\* C24: in async mode every entry whose backend.Write failed in the worker, in
\* the running loop or in the drain loop, has had its error printed.
C24_WriteErrorDiagnosed ==
  isAsync => \A id \in WrittenIds \ writeOk : id \in diagnosed

\* goroutine t is inside a locked section of the backend
InSection(t) == fbCall[t].pc \in {"body", "drop", "unlock"} \/ Len(fbCall[t].stack) > 1

\* C25: fb.mu gives mutual exclusion: at most one goroutine is inside a locked
\* section of Write, Read, ClearLogs or Close, and it is the holder of fb.mu;
\* the file changes only by one whole line appended by the one goroutine inside
\* Write, and fb.file is dropped only by the one goroutine inside Close.
C25_MutualExclusion ==
  /\ [](/\ \A t \in Producers : InSection(t) <=> fbMu = t
        /\ Cardinality({t \in Producers : InSection(t)}) <= 1)
  /\ [][
       /\ disk' # disk =>
            (\E t \in Producers :
               /\ fbCall[t].pc = "body" /\ FbTop(t) = "Write"
               /\ \A u \in Producers \ {t} : ~InSection(u)
               /\ fileOpen
               /\ disk' = disk \o FormatLine(FbEntry(t)))
       /\ fileOpen' # fileOpen =>
            (\E w \in Producers :
               /\ fbCall[w].pc = "drop" /\ FbTop(w) = "Close"
               /\ \A u \in Producers \ {w} : ~InSection(u))
     ]_vars

\* one goroutine is about to drop the handle in Close while the other waits for
\* the lock in Write, a line having been written before
C25_Witness ==
  /\ fbCall[1].pc = "drop"
  /\ fbCall[2].pc = "lock" /\ fbCall[2].stack = <<"Write">>
  /\ disk # <<>>

\* C26: no goroutine waits for fb.mu while it holds fb.mu itself.
C26_NoRelock ==
  \A t \in Producers : fbCall[t].pc = "lock" => fbMu # t

\* C27: when the callers stop submitting and every backend.Write and Handle
\* returns, a Close that has signalled done eventually returns.
C27_CloseReturns == (closer = "wait") ~> (closer = "returned")

\* C28: lm.mu is held only between the Lock and the Unlock around the copy of
\* lm.handlers: its holder is never inside backend.Write or an observer's Handle
\* and can always release it at once, so a Handle that calls back into the
\* manager finds lm.mu not held by its own goroutine, and in async mode
\* RegisterLogHandler can run at any moment of a backend write or a fanout.
C28_RegistryLockNotHeld ==
  /\ lmMu = "worker" => (worker.pc = "unlock" /\ (~crashed => ENABLED ConsumerUnlock))
  /\ worker.pc \in {"write", "fanout"} => lmMu # "worker"
  /\ \A p \in Producers :
       /\ lmMu = CallerName(p) => (call[p].pc = "unlock" /\ (~crashed => ENABLED SyncUnlock(p)))
       /\ call[p].pc \in {"write", "fanout"} => lmMu # CallerName(p)
  /\ (isAsync /\ ~crashed /\ worker.pc \in {"write", "fanout"} /\ Len(handlers) < MaxHandlers)
       => ENABLED RegisterLogHandler("h1")

\* an observer was registered while the worker was in its fanout
C28_Witness ==
  /\ isAsync
  /\ worker.pc = "fanout"
  /\ Len(handlers) > Len(worker.snap)

====
